---- MODULE Spec2Model ----
(***************************************************************************)
(* Model of the frame orchestrator of rg3d (src/renderer/mod.rs):          *)
(* Renderer::new, set_frame_size, set_ambient_color, upload_resources and  *)
(* render with its Statistics.  Time is counted in clock ticks; every call *)
(* of Instant::now() reads a value that is not smaller than the previous   *)
(* reading.  A frame is modelled step by step, one step per statement      *)
(* group of render, and `log` records the passes the frame has invoked.    *)
(***************************************************************************)
EXTENDS Integers, Sequences, FiniteSets, TLC

\* ---------------------------------------------------------------- bounds
MaxW == 2               \* frame widths 1..MaxW
MaxH == 1               \* frame heights 1..MaxH
MaxScenes == 2          \* scenes per scene container
MaxNodes == 2           \* nodes per scene graph
MaxTime == 2            \* last clock tick the model lets the clock reach
MaxFrames == 2          \* cap on frame_counter between two fps commits
MaxColor == 0           \* ambient colours 0..MaxColor besides the default
MaxTextures == 2        \* textures held by the resource manager
MaxHandle == 2          \* scene nodes the inspector can have selected
MaxValue == 1           \* distinct values of each property type
MaxIndex == 1           \* largest emitter index of a collection change
MaxPending == 2         \* commands and messages sent and not yet taken from their queues

\* ------------------------------------------------------- program constants
TicksPerSecond == 1     \* the 1.0 s of the fps window, in ticks
DefaultAmbient == 100   \* Color::opaque(100, 100, 100)
F32MantissaLimit == 16777216  \* 2^24: integers up to here are exact in f32

VARIABLES
    \* Renderer
    constructed,        \* a Renderer value exists (new returned Ok)
    init_failing,       \* input of the last new: the sub-components whose constructor returns Err
    new_error,          \* the sub-component whose creation failed in the last new, or "none"
    created,            \* sub-components the last new created, in creation order
    frame_size,         \* Renderer::frame_size
    gbuffer,            \* Renderer::gbuffer: [size, geometry, frame_texture], see GBufferNew
    live_targets,       \* number of GBuffer values alive (created and not dropped)
    resize_result,      \* result of the last set_frame_size: "none", "Ok", "Err"
    ambient_color,      \* Renderer::ambient_color
    statistics,         \* Renderer::statistics
    now,                \* last value read from the monotonic clock
    created_at,         \* the clock reading Statistics::default() put into last_fps_commit_time
    frame_ends,         \* the clock readings of the end_frame calls since new, in order
    \* the render call in progress / just returned
    pc,                 \* position inside render
    scenes,             \* the SceneContainer argument
    scene_idx,          \* position of the `for scene in scenes.iter()` loop
    counter_at_begin,   \* statistics.frame_counter when the call began
    frame_dims,         \* the locals <<frame_width, frame_height>>
    log,                \* passes and steps the frame has performed, in order
    ui_result,          \* result of ui_renderer.render: "none", "Ok", "Err"
    swap_result,        \* result of context.swap_buffers(): "none", "Ok", "Err"
    render_result,      \* what render returned: "none", "Ok", "Err"
    \* ResourceManager and upload_resources
    textures,           \* resource_manager.get_textures(): sequence of [gpu_tex |-> BOOLEAN]
    gpu_textures,       \* number of GpuTexture values created by upload_resources
    last_uploads,       \* GpuTexture values created by the last upload_resources call
    rejected_tex,       \* index of the texture the backend rejected in the last call, or 0
    uploads_in_row,     \* completed upload_resources calls since a texture was last added (at most 2 are told apart)
    panicked,           \* the thread panicked (unwrap on Err)
    \* the caller of the renderer
    returned,           \* what the last call returned when it was an accessor: [op, value]
    ambient_set,        \* argument of the last set_ambient_color since new, NoColor before the first
    \* ParticleSystemHandler and what it talks to
    command_queue,      \* scene commands passed to helper.do_scene_command, in order
    ui_queue,           \* messages passed to ui.send_message, in order
    handled             \* the notification or message the handler was called with last

renderer_vars == <<constructed, init_failing, new_error, created, frame_size, gbuffer, live_targets,
                   resize_result, ambient_color, statistics, now, created_at, frame_ends>>
frame_vars == <<pc, scenes, scene_idx, counter_at_begin, frame_dims, log, ui_result, swap_result, render_result>>
resource_vars == <<textures, gpu_textures, last_uploads, rejected_tex, uploads_in_row>>
caller_vars == <<returned, ambient_set>>
inspector_vars == <<command_queue, ui_queue, handled>>
vars == <<renderer_vars, frame_vars, resource_vars, panicked, caller_vars, inspector_vars>>

\* ------------------------------------------------------------ input sets
Sizes == {<<w, h>> : w \in 1..MaxW, h \in 1..MaxH}
Colors == {DefaultAmbient} \cup (0..MaxColor)
NodeKinds == {"Camera", "Mesh"}
Graphs == UNION {[1..n -> NodeKinds] : n \in 0..MaxNodes}
SceneContainers == UNION {[1..n -> Graphs] : n \in 0..MaxScenes}
GlErrorCodes == {"NO_ERROR", "INVALID_OPERATION", "OUT_OF_MEMORY"}
\* The values a call of Instant::now() can return when the clock is not let
\* beyond tick T: the clock is monotonic.
ClockReads(T) == {now} \cup (now..T)
\* Scene containers of at most one scene of at most one node.
SmallContainers == {sc \in SceneContainers : Len(sc) <= 1 /\ \A i \in DOMAIN sc : Len(sc[i]) <= 1}

NoDims == <<>>
NoColor == -1
NoReturn == [op |-> "none", value |-> 0]
NoInput == [call |-> "none"]

\* ------------------------------------------------------------ Statistics
StatisticsDefault(t1, t2) ==
    [pure_frame_time |-> 0, capped_frame_time |-> 0, frames_per_second |-> 0,
     frame_counter |-> 0, frame_start_time |-> t1, last_fps_commit_time |-> t2]

begin_frame(s, t) == [s EXCEPT !.frame_start_time = t]

\* end_frame that commits the fps counter on every frame.
end_frame_AlwaysCommits(s, t) ==
    [s EXCEPT !.pure_frame_time = t - s.frame_start_time,
              !.last_fps_commit_time = t,
              !.frames_per_second = s.frame_counter + 1,
              !.frame_counter = 0]

\* end_frame that forgets `self.frame_counter += 1`.
end_frame_NoCount(s, t) ==
    LET timed == [s EXCEPT !.pure_frame_time = t - s.frame_start_time]
    IN  IF t - s.last_fps_commit_time >= TicksPerSecond
        THEN [timed EXCEPT !.last_fps_commit_time = t,
                           !.frames_per_second = timed.frame_counter,
                           !.frame_counter = 0]
        ELSE timed

end_frame(s, t) ==
    LET counted == [s EXCEPT !.pure_frame_time = t - s.frame_start_time,
                             !.frame_counter = s.frame_counter + 1]
    IN  IF t - s.last_fps_commit_time >= TicksPerSecond
        THEN [counted EXCEPT !.last_fps_commit_time = t,
                             !.frames_per_second = counted.frame_counter,
                             !.frame_counter = 0]
        ELSE counted

\* finalize that measures from the last fps commit.
finalize_FromCommit(s, t) == [s EXCEPT !.capped_frame_time = t - s.last_fps_commit_time]

finalize(s, t) == [s EXCEPT !.capped_frame_time = t - s.frame_start_time]

\* ------------------------------------------------------------ conversions
\* `x as f32` for a u32 that holds an integer: exact up to 2^24, rounded to
\* the nearest representable value (ties to even) above.
RECURSIVE Ulp(_)
Ulp(n) == IF n < F32MantissaLimit THEN 1 ELSE 2 * Ulp(n \div 2)

AsF32(n) ==
    LET u == Ulp(n)
        q == n \div u
        r == n % u
    IN  IF 2 * r < u THEN q * u
        ELSE IF 2 * r > u THEN (q + 1) * u
        ELSE IF q % 2 = 0 THEN q * u ELSE (q + 1) * u

\* ------------------------------------------------------------ Renderer::new
NewOrder == <<"deferred_light_renderer", "flat_shader", "gbuffer", "sprite_renderer",
              "white_dummy", "normal_dummy", "ui_renderer", "particle_system_renderer">>
Components == {NewOrder[k] : k \in DOMAIN NewOrder}

\* new that does not propagate the error of the last constructor.
FirstFailure_IgnoresLast(failing) ==
    LET checked == failing \ {NewOrder[Len(NewOrder)]} IN
    IF \E k \in DOMAIN NewOrder : NewOrder[k] \in checked
    THEN CHOOSE k \in DOMAIN NewOrder :
            NewOrder[k] \in checked /\ \A j \in 1..(k - 1) : NewOrder[j] \notin checked
    ELSE 0

\* Position of the first sub-component whose constructor returns Err, or 0.
FirstFailure(failing) ==
    IF \E k \in DOMAIN NewOrder : NewOrder[k] \in failing
    THEN CHOOSE k \in DOMAIN NewOrder :
            NewOrder[k] \in failing /\ \A j \in 1..(k - 1) : NewOrder[j] \notin failing
    ELSE 0

\* What a target of the G-Buffer holds: the scene graph and the camera it was
\* drawn from; Fresh for a target nothing was drawn into since its creation.
Fresh == [graph |-> <<>>, camera |-> 0]
\* GBuffer::new(size): targets of the given size, nothing drawn yet.
GBufferNew(size) == [size |-> size, geometry |-> Fresh, frame_texture |-> Fresh]
\* GBuffer::fill: clears the geometry targets, then rasterizes the graph as
\* seen from the camera.
fill(gb, graph, camera) ==
    [gb EXCEPT !.geometry = [graph |-> graph, camera |-> camera]]
\* DeferredLightRenderer::render: the lit image of what the G-Buffer holds,
\* seeded with the ambient colour, becomes the frame texture.
deferred_light_render(gb) == [gb EXCEPT !.frame_texture = gb.geometry]
NoGBuffer == [size |-> <<0, 0>>, geometry |-> Fresh, frame_texture |-> Fresh]

\* The state of a call of render that is over: its locals are gone.
ResetFrame ==
    /\ pc' = "idle"
    /\ scenes' = <<>>
    /\ scene_idx' = 0
    /\ counter_at_begin' = 0
    /\ frame_dims' = <<0, 0>>
    /\ log' = <<>>
    /\ ui_result' = "none"
    /\ swap_result' = "none"
    /\ render_result' = "none"

Idle == pc = "idle" /\ ~panicked

\* new(frame_size) with frame_size drawn from SZ, the clock not beyond T.
New(SZ, T) ==
    /\ ~constructed /\ Idle
    /\ \E size \in SZ, failing \in SUBSET Components, t1 \in ClockReads(T) :
       \E t2 \in {t1} \cup (t1..T) :
        LET f == FirstFailure(failing) IN
        /\ init_failing' = failing
        /\ new_error' = IF f = 0 THEN "none" ELSE NewOrder[f]
        /\ created' = IF f = 0 THEN NewOrder ELSE SubSeq(NewOrder, 1, f - 1)
        /\ IF f = 0
           THEN /\ constructed' = TRUE
                /\ frame_size' = size
                /\ gbuffer' = GBufferNew(size)
                /\ live_targets' = live_targets + 1
                /\ statistics' = StatisticsDefault(t1, t2)
                /\ ambient_color' = DefaultAmbient
                /\ now' = t2
                /\ created_at' = t2
                /\ frame_ends' = <<>>
           ELSE \* `?` returns the Err; what was created so far is dropped
                /\ constructed' = FALSE
                /\ UNCHANGED <<frame_size, gbuffer, live_targets, statistics,
                               ambient_color, now, created_at, frame_ends>>
    /\ resize_result' = "none"
    /\ returned' = NoReturn
    /\ ambient_set' = NoColor
    /\ UNCHANGED <<frame_vars, resource_vars, panicked, inspector_vars>>

Init ==
    /\ constructed = FALSE
    /\ init_failing = {}
    /\ new_error = "none"
    /\ created = <<>>
    /\ frame_size = <<0, 0>>
    /\ gbuffer = NoGBuffer
    /\ live_targets = 0
    /\ resize_result = "none"
    /\ ambient_color = DefaultAmbient
    /\ statistics = StatisticsDefault(0, 0)
    /\ now = 0
    /\ created_at = 0
    /\ frame_ends = <<>>
    /\ pc = "idle"
    /\ scenes = <<>>
    /\ scene_idx = 0
    /\ counter_at_begin = 0
    /\ frame_dims = <<0, 0>>
    /\ log = <<>>
    /\ ui_result = "none"
    /\ swap_result = "none"
    /\ render_result = "none"
    /\ textures = <<>>
    /\ gpu_textures = 0
    /\ last_uploads = 0
    /\ rejected_tex = 0
    /\ uploads_in_row = 0
    /\ panicked = FALSE
    /\ returned = NoReturn
    /\ ambient_set = NoColor
    /\ command_queue = <<>>
    /\ ui_queue = <<>>
    /\ handled = NoInput

\* ------------------------------------------------- accessors and resizing
\* set_ambient_color that does not accept a colour darker than the default.
SetAmbientColor_Clamps ==
    /\ constructed /\ Idle
    /\ \E color \in Colors :
        /\ ambient_color' = IF color < DefaultAmbient THEN DefaultAmbient ELSE color
        /\ ambient_set' = color
    /\ returned' = NoReturn
    /\ UNCHANGED <<constructed, init_failing, new_error, created, frame_size, gbuffer, live_targets,
                   resize_result, statistics, now, created_at, frame_ends, frame_vars,
                   resource_vars, panicked, inspector_vars>>

SetAmbientColor ==
    /\ constructed /\ Idle
    /\ \E color \in Colors :
        /\ ambient_color' = color
        /\ ambient_set' = color
    /\ returned' = NoReturn
    /\ UNCHANGED <<constructed, init_failing, new_error, created, frame_size, gbuffer, live_targets,
                   resize_result, statistics, now, created_at, frame_ends, frame_vars,
                   resource_vars, panicked, inspector_vars>>

GetAmbientColor ==
    /\ constructed /\ Idle
    /\ returned' = [op |-> "get_ambient_color", value |-> ambient_color]
    /\ UNCHANGED <<renderer_vars, frame_vars, resource_vars, panicked, ambient_set,
                   inspector_vars>>

GetFrameSize ==
    /\ constructed /\ Idle
    /\ returned' = [op |-> "get_frame_size", value |-> frame_size]
    /\ UNCHANGED <<renderer_vars, frame_vars, resource_vars, panicked, ambient_set,
                   inspector_vars>>

\* get_statistics that starts a new fps window for the caller.
GetStatistics_Resets ==
    /\ constructed /\ Idle
    /\ returned' = [op |-> "get_statistics", value |-> statistics]
    /\ statistics' = [statistics EXCEPT !.frame_counter = 0]
    /\ UNCHANGED <<constructed, init_failing, new_error, created, frame_size, gbuffer, live_targets,
                   resize_result, ambient_color, now, created_at, frame_ends, frame_vars,
                   resource_vars, panicked, ambient_set, inspector_vars>>

\* get_statistics returns self.statistics by value (Statistics is Copy).
GetStatistics ==
    /\ constructed /\ Idle
    /\ returned' = [op |-> "get_statistics", value |-> statistics]
    /\ UNCHANGED <<renderer_vars, frame_vars, resource_vars, panicked, ambient_set,
                   inspector_vars>>

\* The caller writes to a public field of the Statistics value it was handed.
CallerModifiesCopy ==
    /\ returned.op = "get_statistics"
    /\ returned.value.frames_per_second = statistics.frames_per_second
    /\ returned' = [returned EXCEPT !.value.frames_per_second = @ + 1]
    /\ UNCHANGED <<renderer_vars, frame_vars, resource_vars, panicked, ambient_set,
                   inspector_vars>>

\* set_frame_size that keeps the previous G-Buffer alive.
SetFrameSize_Leaks(SZ) ==
    /\ constructed /\ Idle
    /\ \E new_size \in SZ, backend_ok \in BOOLEAN :
        /\ frame_size' = new_size
        /\ IF backend_ok
           THEN /\ gbuffer' = GBufferNew(new_size)
                /\ live_targets' = live_targets + 1
                /\ resize_result' = "Ok"
           ELSE /\ UNCHANGED <<gbuffer, live_targets>>
                /\ resize_result' = "Err"
    /\ returned' = NoReturn
    /\ UNCHANGED ambient_set
    /\ UNCHANGED <<constructed, init_failing, new_error, created, ambient_color, statistics,
                   now, created_at, frame_ends, frame_vars, resource_vars, panicked, inspector_vars>>

\* set_frame_size: frame_size is assigned first; GBuffer::new(new_size)? returns
\* early on Err; on Ok the assignment to self.gbuffer drops the previous value.
SetFrameSize(SZ) ==
    /\ constructed /\ Idle
    /\ \E new_size \in SZ, backend_ok \in BOOLEAN :
        /\ frame_size' = new_size
        /\ IF backend_ok
           THEN /\ gbuffer' = GBufferNew(new_size)
                /\ live_targets' = (live_targets + 1) - 1
                /\ resize_result' = "Ok"
           ELSE /\ UNCHANGED <<gbuffer, live_targets>>
                /\ resize_result' = "Err"
    /\ returned' = NoReturn
    /\ UNCHANGED ambient_set
    /\ UNCHANGED <<constructed, init_failing, new_error, created, ambient_color, statistics, now,
                   created_at, frame_ends, frame_vars, resource_vars, panicked, inspector_vars>>

\* ------------------------------------------------------------ Renderer::render
\* One entry of the frame's log: the step, the scenes it is given (indexes
\* into the scene container), the camera node it uses (0: none), the
\* dimensions and the ambient colour it is given.
\* A step that is handed, or draws from, the G-Buffer records it as well.
EvG(op, scs, cam, dims, amb, gb) ==
    [op |-> op, scenes |-> scs, camera |-> cam, dims |-> dims, ambient |-> amb,
     gbuffer |-> gb]
Ev(op, scs, cam, dims, amb) == EvG(op, scs, cam, dims, amb, NoGBuffer)
Step(op) == Ev(op, {}, 0, NoDims, NoColor)

is_camera(node) == node = "Camera"

\* A search that keeps the last camera node it meets.
FindCamera_Last(graph) ==
    IF \E k \in DOMAIN graph : is_camera(graph[k])
    THEN CHOOSE k \in DOMAIN graph :
            is_camera(graph[k]) /\ \A j \in (k + 1)..Len(graph) : ~is_camera(graph[j])
    ELSE 0

\* graph.linear_iter().find(|node| node.is_camera()): position of the first
\* camera node of the graph, 0 for None.
FindCamera(graph) ==
    IF \E k \in DOMAIN graph : is_camera(graph[k])
    THEN CHOOSE k \in DOMAIN graph :
            is_camera(graph[k]) /\ \A j \in 1..(k - 1) : ~is_camera(graph[j])
    ELSE 0

\* render(scenes, ..) with scenes drawn from SC, the clock not beyond T.
RenderBegin(SC, T) ==
    /\ constructed /\ Idle
    /\ statistics.frame_counter < MaxFrames
    /\ \E sc \in SC, t \in ClockReads(T) :
        /\ scenes' = sc
        /\ now' = t
        /\ statistics' = begin_frame(statistics, t)
    /\ frame_dims' = <<AsF32(frame_size[1]), AsF32(frame_size[2])>>
    /\ scene_idx' = 1
    /\ counter_at_begin' = statistics.frame_counter
    /\ log' = <<Step("begin_frame")>>
    /\ ui_result' = "none"
    /\ swap_result' = "none"
    /\ render_result' = "none"
    /\ pc' = "scenes"
    /\ returned' = NoReturn
    /\ UNCHANGED ambient_set
    /\ UNCHANGED <<constructed, init_failing, new_error, created, frame_size, gbuffer, live_targets,
                   resize_result, ambient_color, created_at, frame_ends, resource_vars,
                   panicked, inspector_vars>>

\* The loop with `break` in place of `continue` for a scene without camera.
RenderScene_BreaksOnNoCamera ==
    /\ pc = "scenes" /\ scene_idx <= Len(scenes)
    /\ LET graph == scenes[scene_idx]
           camera == FindCamera(graph)
           filled == fill(gbuffer, graph, camera)
           lit == deferred_light_render(filled)
       IN  IF camera = 0
           THEN /\ log' = log
                /\ gbuffer' = gbuffer
                /\ scene_idx' = Len(scenes) + 1
           ELSE /\ log' = log \o
                   <<Ev("gbuffer_fill", {scene_idx}, camera, frame_dims, NoColor),
                     Ev("deferred_light", {scene_idx}, camera, frame_dims, ambient_color)>>
                /\ gbuffer' = lit
                /\ scene_idx' = scene_idx + 1
    /\ UNCHANGED <<constructed, init_failing, new_error, created, frame_size, live_targets,
                   resize_result, ambient_color, statistics, now, created_at, frame_ends>>
    /\ UNCHANGED <<pc, scenes, counter_at_begin, frame_dims, ui_result,
                   swap_result, render_result, resource_vars, panicked, caller_vars,
                   inspector_vars>>

\* The loop with a fill that draws only into targets nothing was drawn into
\* in this frame: a later scene does not replace an earlier one.
RenderScene_KeepsFirstFill ==
    /\ pc = "scenes" /\ scene_idx <= Len(scenes)
    /\ LET graph == scenes[scene_idx]
           camera == FindCamera(graph)
           drawn == \E k \in DOMAIN log : log[k].op = "gbuffer_fill"
           filled == IF drawn THEN gbuffer ELSE fill(gbuffer, graph, camera)
           lit == deferred_light_render(filled)
       IN  IF camera = 0
           THEN /\ log' = log
                /\ gbuffer' = gbuffer
           ELSE /\ log' = log \o
                   <<Ev("gbuffer_fill", {scene_idx}, camera, frame_dims, NoColor),
                     Ev("deferred_light", {scene_idx}, camera, frame_dims, ambient_color)>>
                /\ gbuffer' = lit
    /\ scene_idx' = scene_idx + 1
    /\ UNCHANGED <<constructed, init_failing, new_error, created, frame_size, live_targets,
                   resize_result, ambient_color, statistics, now, created_at, frame_ends>>
    /\ UNCHANGED <<pc, scenes, counter_at_begin, frame_dims, ui_result, swap_result,
                   render_result, resource_vars, panicked, caller_vars,
                   inspector_vars>>

\* One iteration of `for scene in scenes.iter()`: the fill and the lighting
\* pass both work on self.gbuffer.
RenderScene ==
    /\ pc = "scenes" /\ scene_idx <= Len(scenes)
    /\ LET graph == scenes[scene_idx]
           camera == FindCamera(graph)
           filled == fill(gbuffer, graph, camera)
           lit == deferred_light_render(filled)
       IN  IF camera = 0
           THEN log' = log /\ gbuffer' = gbuffer         \* None => continue
           ELSE IF graph[camera] # "Camera"
           THEN log' = log /\ gbuffer' = gbuffer         \* _ => continue
           ELSE /\ log' = log \o
                   <<Ev("gbuffer_fill", {scene_idx}, camera, frame_dims, NoColor),
                     Ev("deferred_light", {scene_idx}, camera, frame_dims, ambient_color)>>
                /\ gbuffer' = lit
    /\ scene_idx' = scene_idx + 1
    /\ UNCHANGED <<constructed, init_failing, new_error, created, frame_size, live_targets,
                   resize_result, ambient_color, statistics, now, created_at, frame_ends>>
    /\ UNCHANGED <<pc, scenes, counter_at_begin, frame_dims, ui_result, swap_result,
                   render_result, resource_vars, panicked, caller_vars,
                   inspector_vars>>

\* The particle pass handed only the scenes that have a camera.
RenderParticles_CameraScenesOnly ==
    /\ pc = "scenes" /\ scene_idx > Len(scenes)
    /\ log' = Append(log, EvG("particle_system",
                              {i \in DOMAIN scenes : FindCamera(scenes[i]) # 0},
                              0, frame_dims, NoColor, gbuffer))
    /\ pc' = "sprites"
    /\ UNCHANGED <<renderer_vars, scenes, scene_idx, counter_at_begin, frame_dims, ui_result,
                   swap_result, render_result, resource_vars, panicked, caller_vars,
                   inspector_vars>>

RenderParticles ==
    /\ pc = "scenes" /\ scene_idx > Len(scenes)
    /\ log' = Append(log, EvG("particle_system", DOMAIN scenes, 0, frame_dims, NoColor, gbuffer))
    /\ pc' = "sprites"
    /\ UNCHANGED <<renderer_vars, scenes, scene_idx, counter_at_begin, frame_dims, ui_result, swap_result,
                   render_result, resource_vars, panicked, caller_vars,
                   inspector_vars>>

\* render without the call of the sprite pass.
RenderSprites_Skipped ==
    /\ pc = "sprites"
    /\ log' = log
    /\ pc' = "blit"
    /\ UNCHANGED <<renderer_vars, scenes, scene_idx, counter_at_begin, frame_dims, ui_result,
                   swap_result, render_result, resource_vars, panicked, caller_vars,
                   inspector_vars>>

RenderSprites ==
    /\ pc = "sprites"
    /\ log' = Append(log, Ev("sprite", DOMAIN scenes, 0, NoDims, NoColor))
    /\ pc' = "blit"
    /\ UNCHANGED <<renderer_vars, scenes, scene_idx, counter_at_begin, frame_dims, ui_result, swap_result,
                   render_result, resource_vars, panicked, caller_vars,
                   inspector_vars>>

\* Bind the back buffer, set the viewport, draw the frame texture with the flat shader.
RenderFinalBlit ==
    /\ pc = "blit"
    /\ log' = Append(log, EvG("final_blit", {}, 0, frame_dims, NoColor, gbuffer))
    /\ pc' = "ui"
    /\ UNCHANGED <<renderer_vars, scenes, scene_idx, counter_at_begin, frame_dims, ui_result, swap_result,
                   render_result, resource_vars, panicked, caller_vars,
                   inspector_vars>>

\* self.ui_renderer.render(...)?  -- an Err leaves render at once.
RenderUI ==
    /\ pc = "ui"
    /\ \E ok \in BOOLEAN :
        /\ ui_result' = IF ok THEN "Ok" ELSE "Err"
        /\ IF ok
           THEN /\ pc' = "end_frame"
                /\ render_result' = render_result
           ELSE /\ pc' = "done"
                /\ render_result' = "Err"
    /\ log' = Append(log, Ev("ui", {}, 0, frame_dims, NoColor))
    /\ UNCHANGED <<renderer_vars, scenes, scene_idx, counter_at_begin, frame_dims, swap_result,
                   resource_vars, panicked, caller_vars,
                   inspector_vars>>

RenderEndFrame(T) ==
    /\ pc = "end_frame"
    /\ \E t \in ClockReads(T) :
        /\ now' = t
        /\ statistics' = end_frame(statistics, t)
        /\ frame_ends' = Append(frame_ends, t)
    /\ log' = Append(log, Step("end_frame"))
    /\ pc' = "present"
    /\ UNCHANGED <<constructed, init_failing, new_error, created, frame_size, gbuffer, live_targets,
                   resize_result, ambient_color, created_at, scenes, scene_idx, counter_at_begin, frame_dims, ui_result,
                   swap_result, render_result, resource_vars, panicked, caller_vars,
                   inspector_vars>>

\* swap_buffers()? in place of the is_err() test: a failed swap returns Err.
RenderPresent_Propagates ==
    /\ pc = "present"
    /\ \E ok \in BOOLEAN :
        /\ swap_result' = IF ok THEN "Ok" ELSE "Err"
        /\ log' = Append(log, Step("swap_buffers"))
        /\ pc' = IF ok THEN "check_gl" ELSE "done"
        /\ render_result' = IF ok THEN render_result ELSE "Err"
    /\ UNCHANGED <<renderer_vars, scenes, scene_idx, counter_at_begin, frame_dims, ui_result,
                   resource_vars, panicked, caller_vars,
                   inspector_vars>>

\* context.swap_buffers(); a failure is printed and nothing else.
RenderPresent ==
    /\ pc = "present"
    /\ \E ok \in BOOLEAN :
        /\ swap_result' = IF ok THEN "Ok" ELSE "Err"
        /\ log' = IF ok THEN Append(log, Step("swap_buffers"))
                        ELSE log \o <<Step("swap_buffers"), Step("print_swap_failed")>>
    /\ pc' = "check_gl"
    /\ UNCHANGED <<renderer_vars, scenes, scene_idx, counter_at_begin, frame_dims, ui_result,
                   render_result, resource_vars, panicked, caller_vars,
                   inspector_vars>>

\* check_gl_error!(): gl::GetError(), printed when it is not NO_ERROR.
check_gl_error_internal(error_code) ==
    IF error_code # "NO_ERROR" THEN <<Step("print_gl_error")>> ELSE <<>>

RenderCheckGlError ==
    /\ pc = "check_gl"
    /\ \E error_code \in GlErrorCodes :
        log' = log \o check_gl_error_internal(error_code)
    /\ pc' = "finalize"
    /\ UNCHANGED <<renderer_vars, scenes, scene_idx, counter_at_begin, frame_dims, ui_result, swap_result,
                   render_result, resource_vars, panicked, caller_vars,
                   inspector_vars>>

RenderFinalize(T) ==
    /\ pc = "finalize"
    /\ \E t \in ClockReads(T) :
        /\ now' = t
        /\ statistics' = finalize(statistics, t)
    /\ log' = Append(log, Step("finalize"))
    /\ render_result' = "Ok"
    /\ pc' = "done"
    /\ UNCHANGED <<constructed, init_failing, new_error, created, frame_size, gbuffer, live_targets,
                   resize_result, ambient_color, created_at, frame_ends, scenes, scene_idx, counter_at_begin, frame_dims, ui_result,
                   swap_result, resource_vars, panicked, caller_vars,
                   inspector_vars>>

\* render has returned (pc = "done", render_result is what it returned); the
\* caller takes the result and the call is over.
RenderReturn ==
    /\ pc = "done"
    /\ ResetFrame
    /\ UNCHANGED <<renderer_vars, resource_vars, panicked, caller_vars,
                   inspector_vars>>

\* ------------------------------------------------ Renderer::upload_resources
\* The resource manager loads one more texture; it is not GPU-resident yet.
AddTexture ==
    /\ Idle
    /\ Len(textures) < MaxTextures
    /\ textures' = Append(textures, [gpu_tex |-> FALSE])
    /\ uploads_in_row' = 0
    /\ UNCHANGED <<gpu_textures, last_uploads, rejected_tex, renderer_vars, frame_vars,
                   panicked, caller_vars,
                   inspector_vars>>

\* The loop without `texture.gpu_tex = Some(gpu_texture)`.
RECURSIVE UploadLoop_ForgetsHandle(_, _, _, _)
UploadLoop_ForgetsHandle(texs, i, rejecting, n) ==
    IF i > Len(texs) THEN [textures |-> texs, uploads |-> n, rejected |-> 0]
    ELSE IF texs[i].gpu_tex THEN UploadLoop_ForgetsHandle(texs, i + 1, rejecting, n)
    ELSE IF i \in rejecting THEN [textures |-> texs, uploads |-> n, rejected |-> i]
    ELSE UploadLoop_ForgetsHandle(texs, i + 1, rejecting, n + 1)

\* The loop of upload_resources from texture i on; `rejecting` are the textures
\* for which GpuTexture::new returns Err, n counts the GpuTexture values created.
\* unwrap() on an Err panics: the loop ends at that texture.
RECURSIVE UploadLoop(_, _, _, _)
UploadLoop(texs, i, rejecting, n) ==
    IF i > Len(texs) THEN [textures |-> texs, uploads |-> n, rejected |-> 0]
    ELSE IF texs[i].gpu_tex THEN UploadLoop(texs, i + 1, rejecting, n)
    ELSE IF i \in rejecting THEN [textures |-> texs, uploads |-> n, rejected |-> i]
    ELSE UploadLoop([texs EXCEPT ![i].gpu_tex = TRUE], i + 1, rejecting, n + 1)

UploadResources ==
    /\ constructed /\ Idle
    /\ \E rejecting \in SUBSET (DOMAIN textures) :
        LET r == UploadLoop(textures, 1, rejecting, 0) IN
        /\ textures' = r.textures
        /\ gpu_textures' = gpu_textures + r.uploads
        /\ last_uploads' = r.uploads
        /\ rejected_tex' = r.rejected
        /\ panicked' = (r.rejected # 0)
        /\ uploads_in_row' = IF r.rejected # 0 THEN 0
                              ELSE IF uploads_in_row < 2 THEN uploads_in_row + 1 ELSE 2
    /\ returned' = NoReturn
    /\ UNCHANGED <<renderer_vars, frame_vars, ambient_set, inspector_vars>>

\* The frame pipeline: frames over every scene container.  The pipeline's
\* control flow reads neither the clock nor the frame size, so the clock
\* stands still (every frame is shorter than a tick) and one size is used.
Next ==
    \/ New({<<MaxW, MaxH>>}, 0)
    \/ RenderBegin(SceneContainers, 0)
    \/ RenderScene
    \/ RenderParticles
    \/ RenderSprites
    \/ RenderFinalBlit
    \/ RenderUI
    \/ RenderEndFrame(0)
    \/ RenderPresent
    \/ RenderCheckGlError
    \/ RenderFinalize(0)
    \/ RenderReturn

Spec == Init /\ [][Next]_vars

\* The statistics: frames over small scene containers while the clock runs.
NextStatistics ==
    \/ New({<<MaxW, MaxH>>}, MaxTime)
    \/ RenderBegin(SmallContainers, MaxTime)
    \/ RenderScene
    \/ RenderParticles
    \/ RenderSprites
    \/ RenderFinalBlit
    \/ RenderUI
    \/ RenderEndFrame(MaxTime)
    \/ RenderPresent
    \/ RenderCheckGlError
    \/ RenderFinalize(MaxTime)
    \/ RenderReturn

SpecStatistics == Init /\ [][NextStatistics]_vars

\* Construction and configuration: every frame size and ambient colour, with
\* frames over small scene containers in between; the clock stands still.
NextConfig ==
    \/ New(Sizes, 0)
    \/ SetAmbientColor
    \/ GetAmbientColor
    \/ SetFrameSize(Sizes)
    \/ GetFrameSize
    \/ RenderBegin(SmallContainers, 0)
    \/ RenderScene
    \/ RenderParticles
    \/ RenderSprites
    \/ RenderFinalBlit
    \/ RenderUI
    \/ RenderEndFrame(0)
    \/ RenderPresent
    \/ RenderCheckGlError
    \/ RenderFinalize(0)
    \/ RenderReturn

SpecConfig == Init /\ [][NextConfig]_vars

\* The renderer with its resource manager: construction and texture upload
\* between frames.
NextResources ==
    \/ New(Sizes, 0)
    \/ AddTexture
    \/ UploadResources

SpecResources == Init /\ [][NextResources]_vars

\* Every operation of the public interface, with one frame size at
\* construction, small scene containers and the clock standing still.
NextApi ==
    \/ New({<<MaxW, MaxH>>}, 0)
    \/ SetAmbientColor
    \/ GetAmbientColor
    \/ SetFrameSize(Sizes)
    \/ GetFrameSize
    \/ GetStatistics
    \/ CallerModifiesCopy
    \/ AddTexture
    \/ UploadResources
    \/ RenderBegin(SmallContainers, 0)
    \/ RenderScene
    \/ RenderParticles
    \/ RenderSprites
    \/ RenderFinalBlit
    \/ RenderUI
    \/ RenderEndFrame(0)
    \/ RenderPresent
    \/ RenderCheckGlError
    \/ RenderFinalize(0)
    \/ RenderReturn

SpecApi == Init /\ [][NextApi]_vars

\* ------------------------------------------------ ParticleSystemHandler
\* The widgets ParticleSystemHandler::new builds, and any other widget.
Widgets == {"selector_window", "sphere", "cuboid", "cylinder", "other"}
NodeHandles == 1..MaxHandle
\* The property names the handler matches on, and any other name.
PropertyNames == {"TEXTURE", "ACCELERATION", "ENABLED", "SOFT_BOUNDARY_SHARPNESS_FACTOR",
                  "EMITTERS", "OTHER"}
TypedNames == {"TEXTURE", "ACCELERATION", "ENABLED", "SOFT_BOUNDARY_SHARPNESS_FACTOR"}
ValueTypes == {"Option<Texture>", "Vector3<f32>", "bool", "f32"}
\* The T of the arm's value.cast_value::<T>().
PropertyType(name) ==
    CASE name = "TEXTURE" -> "Option<Texture>"
      [] name = "ACCELERATION" -> "Vector3<f32>"
      [] name = "ENABLED" -> "bool"
      [] name = "SOFT_BOUNDARY_SHARPNESS_FACTOR" -> "f32"
NoValue == [type |-> "none", v |-> 0]
NoChange == [op |-> "none", index |-> 0]
ObjectValues == [type : ValueTypes, v : 0..MaxValue]
CollectionChanges ==
    {[op |-> "Add", index |-> 0]} \cup [op : {"Remove", "ItemChanged"}, index : 0..MaxIndex]
\* PropertyChanged: a name and a FieldKind (Object, Collection, or another kind).
PropertyChanges ==
    [name : PropertyNames, kind : {"Object"}, value : ObjectValues, change : {NoChange}]
    \cup [name : PropertyNames, kind : {"Collection"}, value : {NoValue},
          change : CollectionChanges]
    \cup [name : PropertyNames, kind : {"Inspectable"}, value : {NoValue}, change : {NoChange}]
\* The notifications an inspector of a ParticleSystem sends: the value of a
\* property has the type of the property.
InspectorNotifications ==
    {a \in PropertyChanges :
        (a.kind = "Object" /\ a.name \in TypedNames) => a.value.type = PropertyType(a.name)}
UiMessages ==
    [data : {"ButtonMessage::Click", "ButtonMessage::Content", "WindowMessage::Close"},
     destination : Widgets]

\* Commands and messages sent so far and still queued; it numbers what is sent.
Sent == Len(command_queue) + Len(ui_queue)
Command(kind, node_handle, value, emitter, index, at) ==
    [kind |-> kind, node_handle |-> node_handle, value |-> value, emitter |-> emitter,
     index |-> index, at |-> at]
WindowMessage(kind, destination, modal, at) ==
    [kind |-> kind, destination |-> destination, direction |-> "ToWidget", modal |-> modal,
     at |-> at]

\* value.cast_value::<T>().unwrap() of the arm for `name` panics.
ObjectPanics(name, value) == name \in TypedNames /\ value.type # PropertyType(name)

\* FieldKind::Object(value) => match args.name
ObjectCommands(name, value, node_handle, at) ==
    CASE name = "TEXTURE" ->
            <<Command("SetParticleSystemTextureCommand", node_handle, value, "None", 0, at)>>
      [] name = "ACCELERATION" ->
            <<Command("SetParticleSystemAccelerationCommand", node_handle, value, "None", 0, at)>>
      [] name = "ENABLED" ->
            <<Command("SetParticleSystemEnabledCommand", node_handle, value, "None", 0, at)>>
      [] name = "SOFT_BOUNDARY_SHARPNESS_FACTOR" ->
            <<Command("SetSoftBoundarySharpnessFactorCommand", node_handle, value, "None", 0, at)>>
      [] OTHER -> <<>>                                   \* println!

\* A match in which ItemChanged deletes the emitter as Remove does.
CollectionCommands_ItemChangedDeletes(name, change, node_handle, at) ==
    IF name = "EMITTERS" /\ change.op \in {"Remove", "ItemChanged"}
    THEN <<Command("DeleteEmitterCommand", node_handle, NoValue, "None", change.index, at)>>
    ELSE <<>>

\* FieldKind::Collection(collection_changed) => match args.name: the commands
CollectionCommands(name, change, node_handle, at) ==
    IF name = "EMITTERS" /\ change.op = "Remove"
    THEN <<Command("DeleteEmitterCommand", node_handle, NoValue, "None", change.index, at)>>
    ELSE <<>>

\* FieldKind::Collection(collection_changed) => match args.name: the messages
CollectionMessages(name, change, at) ==
    IF name = "EMITTERS" /\ change.op = "Add"
    THEN <<WindowMessage("WindowMessage::open_modal", "selector_window", TRUE, at)>>
    ELSE <<>>

\* handle(args, node_handle, helper, ui) with args drawn from ARGS.
Handle(ARGS) ==
    /\ ~panicked /\ handled = NoInput
    /\ Sent < MaxPending
    /\ \E args \in ARGS, node_handle \in NodeHandles :
        /\ handled' = [call |-> "handle", args |-> args, node_handle |-> node_handle]
        /\ IF args.kind = "Object"
           THEN IF ObjectPanics(args.name, args.value)
                THEN /\ panicked' = TRUE
                     /\ UNCHANGED <<command_queue, ui_queue>>
                ELSE /\ command_queue' = command_queue \o
                            ObjectCommands(args.name, args.value, node_handle, Sent)
                     /\ UNCHANGED <<ui_queue, panicked>>
           ELSE IF args.kind = "Collection"
           THEN /\ command_queue' = command_queue \o
                       CollectionCommands(args.name, args.change, node_handle, Sent)
                /\ ui_queue' = ui_queue \o CollectionMessages(args.name, args.change, Sent)
                /\ UNCHANGED panicked
           ELSE UNCHANGED <<command_queue, ui_queue, panicked>>
    /\ UNCHANGED <<renderer_vars, frame_vars, resource_vars, caller_vars>>

\* A chain of comparisons that takes the sphere button for the cuboid one.
ClickedEmitter_SphereIsCuboid(destination) ==
    IF destination = "sphere" THEN "Cuboid"
    ELSE IF destination = "cuboid" THEN "Sphere"
    ELSE IF destination = "cylinder" THEN "Cylinder"
    ELSE "None"

\* The emitter the clicked widget stands for: cuboid, sphere, cylinder, else None.
ClickedEmitter(destination) ==
    IF destination = "cuboid" THEN "Cuboid"
    ELSE IF destination = "sphere" THEN "Sphere"
    ELSE IF destination = "cylinder" THEN "Cylinder"
    ELSE "None"

\* handle_ui_message(message, node_handle, helper, ui) with message drawn from MSGS.
HandleUiMessage(MSGS) ==
    /\ ~panicked /\ handled = NoInput
    /\ Sent < MaxPending
    /\ \E message \in MSGS, node_handle \in NodeHandles :
        /\ handled' = [call |-> "handle_ui_message", message |-> message,
                       node_handle |-> node_handle]
        /\ LET emitter == IF message.data = "ButtonMessage::Click"
                          THEN ClickedEmitter(message.destination)
                          ELSE "None"
           IN  IF emitter # "None"
               THEN /\ command_queue' = Append(command_queue,
                           Command("AddParticleSystemEmitterCommand", node_handle, NoValue,
                                   emitter, 0, Sent))
                    /\ ui_queue' = Append(ui_queue,
                           WindowMessage("WindowMessage::close", "selector_window", FALSE,
                                         Sent + 1))
               ELSE UNCHANGED <<command_queue, ui_queue>>
    /\ UNCHANGED <<renderer_vars, frame_vars, resource_vars, caller_vars, panicked>>

\* handle or handle_ui_message returns: its arguments are gone.
HandlerReturn ==
    /\ ~panicked /\ handled # NoInput
    /\ handled' = NoInput
    /\ UNCHANGED <<renderer_vars, frame_vars, resource_vars, caller_vars, panicked,
                   command_queue, ui_queue>>

NextInspector ==
    \/ Handle(InspectorNotifications)
    \/ HandleUiMessage(UiMessages)
    \/ HandlerReturn
SpecInspector == Init /\ [][NextInspector]_vars

\* ================================================================ properties
HasCamera(graph) == \E k \in DOMAIN graph : graph[k] = "Camera"
CameraScenes == {i \in DOMAIN scenes : HasCamera(scenes[i])}
Prints == {"print_swap_failed", "print_gl_error"}
IsFrameStep(e) == e.op \notin Prints
\* The names of the steps the frame has performed, diagnostics left out.
FrameOps ==
    LET steps == SelectSeq(log, IsFrameStep)
    IN  [k \in DOMAIN steps |-> steps[k].op]
Logged(op) == \E k \in DOMAIN log : log[k].op = op
Count(op) == Cardinality({k \in DOMAIN log : log[k].op = op})
ScenePassOps == {"gbuffer_fill", "deferred_light"}
\* Position where the per-scene work ends: the particle pass.
ParticleAt == CHOOSE k \in DOMAIN FrameOps : FrameOps[k] = "particle_system"
SceneWorkOk ==
    /\ Count("particle_system") = 1
    /\ FrameOps[1] = "begin_frame"
    /\ \A k \in 2..(ParticleAt - 1) : FrameOps[k] \in ScenePassOps
    /\ ParticleAt = 2 + 2 * Cardinality(CameraScenes)
TailOps == SubSeq(FrameOps, ParticleAt, Len(FrameOps))

\* C1 (as stated): a render that returns Ok has performed begin_frame, the
\* per-scene G-Buffer and lighting work, the particle pass, the sprite pass,
\* the final blit, the UI pass, swap_buffers and only then end_frame and
\* finalize, each once.
C1_PresentBeforeEndFrame ==
    render_result = "Ok" =>
        /\ SceneWorkOk
        /\ TailOps = <<"particle_system", "sprite", "final_blit", "ui",
                       "swap_buffers", "end_frame", "finalize">>

\* C1 (amended): a render that returns Ok has performed begin_frame, the
\* per-scene G-Buffer and lighting work, the particle pass, the sprite pass,
\* the final blit, the UI pass, end_frame, swap_buffers and finalize, in this
\* order and each once: end_frame runs before the swap, finalize after it.
C1_FrameOrder ==
    render_result = "Ok" =>
        /\ SceneWorkOk
        /\ TailOps = <<"particle_system", "sprite", "final_blit", "ui",
                       "end_frame", "swap_buffers", "finalize">>

C1_Witness ==
    /\ render_result = "Ok"
    /\ Len(scenes) = 2
    /\ Cardinality(CameraScenes) = 1

C1_WitnessNoScenes ==
    /\ render_result = "Ok"
    /\ scenes = <<>>

\* C2 (as stated): every render call that has returned has executed
\* swap_buffers, end_frame and finalize, also when the UI pass returned Err.
C2_NoCancellation ==
    pc = "done" => Logged("swap_buffers") /\ Logged("end_frame") /\ Logged("finalize")

\* C3: render returns Err exactly when the UI pass of the frame returned Err;
\* a failed swap and a GPU error code are printed and the call still returns
\* Ok, and the frame never panics.
C3_ErrorOnlyFromUI ==
    /\ ~panicked
    /\ pc = "done" =>
        /\ render_result \in {"Ok", "Err"}
        /\ (render_result = "Err") <=> (ui_result = "Err")
        /\ swap_result = "Err" => render_result = "Ok" /\ Logged("print_swap_failed")
        /\ Logged("print_gl_error") => render_result = "Ok"

C3_Witness ==
    /\ pc = "done"
    /\ swap_result = "Err"
    /\ Logged("print_gl_error")
    /\ render_result = "Ok"

C3_WitnessUiErr ==
    /\ pc = "done"
    /\ ui_result = "Err"
    /\ render_result = "Err"

\* C4: a frame whose swap_buffers failed returns Ok, its end_frame has counted
\* it (frame_counter is one more than when the call began, or the fps window
\* was committed with that count and the counter reset) and finalize has
\* recorded capped_frame_time from the frame's start timestamp.
C4_SwapFailureStillCounted ==
    (pc = "done" /\ swap_result = "Err") =>
        /\ render_result = "Ok"
        /\ \/ statistics.frame_counter = counter_at_begin + 1
           \/ /\ statistics.frame_counter = 0
              /\ statistics.frames_per_second = counter_at_begin + 1
        /\ Logged("finalize")
        /\ statistics.capped_frame_time = now - statistics.frame_start_time

C4_Witness ==
    /\ pc = "done"
    /\ swap_result = "Err"
    /\ statistics.capped_frame_time > 0
    /\ statistics.frame_counter = 0
    /\ statistics.frames_per_second = counter_at_begin + 1

\* C5: a scene without a camera node gets neither a G-Buffer fill nor a
\* lighting pass; the loop goes on, so that once the loop is over every scene
\* with a camera has had exactly one fill and one lighting pass; and the
\* call does not fail unless the UI pass fails.
PassesFor(op, i) == Cardinality({k \in DOMAIN log : log[k].op = op /\ i \in log[k].scenes})
C5_NoCameraNoScenePass ==
    /\ \A i \in DOMAIN scenes :
        ~HasCamera(scenes[i]) =>
            PassesFor("gbuffer_fill", i) = 0 /\ PassesFor("deferred_light", i) = 0
    /\ pc \notin {"idle", "scenes"} =>
        \A i \in CameraScenes :
            PassesFor("gbuffer_fill", i) = 1 /\ PassesFor("deferred_light", i) = 1
    /\ render_result = "Err" => ui_result = "Err"

C5_Witness ==
    /\ pc = "done"
    /\ render_result = "Ok"
    /\ Len(scenes) = 2
    /\ ~HasCamera(scenes[1])
    /\ HasCamera(scenes[2])

\* C6 (as stated): no pass of the frame is given a scene that has no camera.
C6_SkippedEntirely ==
    \A k \in DOMAIN log : \A i \in log[k].scenes : HasCamera(scenes[i])

\* C6 (amended): a scene without a camera is skipped by the per-scene G-Buffer
\* fill and lighting pass only; the particle pass and the sprite pass are each
\* given the whole scene container, the scenes without a camera included.
C6_SkippedByScenePassesOnly ==
    \A k \in DOMAIN log :
        /\ log[k].op \in {"particle_system", "sprite"} => log[k].scenes = DOMAIN scenes
        /\ log[k].op \notin {"particle_system", "sprite"} =>
              \A i \in log[k].scenes : HasCamera(scenes[i])

C6_Witness ==
    /\ pc = "done"
    /\ \E i \in DOMAIN scenes :
        /\ ~HasCamera(scenes[i])
        /\ \E k \in DOMAIN log : log[k].op = "particle_system" /\ i \in log[k].scenes
        /\ \E k \in DOMAIN log : log[k].op = "sprite" /\ i \in log[k].scenes

\* C7: after a set_frame_size((w,h)) that returned Ok the renderer owns one
\* G-Buffer, of size (w,h), no other G-Buffer is alive, and every pass of a
\* following render that takes dimensions is given (w,h).
DimOps == {"gbuffer_fill", "deferred_light", "particle_system", "final_blit", "ui"}
C8_NewFailsFast ==
    /\ constructed <=> (created = NewOrder)
    /\ constructed => init_failing = {} /\ new_error = "none"
    /\ init_failing # {} => new_error \in init_failing /\ ~constructed
    /\ ~constructed =>
        /\ pc = "idle" /\ log = <<>> /\ render_result = "none"
        /\ resize_result = "none"
        /\ live_targets = 0

C8_Witness ==
    /\ ~constructed
    /\ init_failing = {"particle_system_renderer"}
    /\ new_error = "particle_system_renderer"
    /\ Len(created) = 7

\* C9: an upload_resources call that directly follows a completed one, with
\* no texture added in between, creates no GPU texture and leaves every
\* texture as it was.
C9_UploadIdempotent ==
    [][(uploads_in_row >= 1 /\ UploadResources) =>
          /\ last_uploads' = 0
          /\ gpu_textures' = gpu_textures
          /\ textures' = textures
          /\ ~panicked']_vars

C9_Witness ==
    /\ uploads_in_row = 2
    /\ Len(textures) = MaxTextures
    /\ \A i \in DOMAIN textures : textures[i].gpu_tex
    /\ last_uploads = 0

\* C10 (as stated): when the backend rejects a texture during
\* upload_resources the program does not abort and every other texture of
\* the resource manager is GPU-resident when the call is over.
C10_SkipAndContinue ==
    rejected_tex # 0 =>
        /\ ~panicked
        /\ \A i \in DOMAIN textures : i # rejected_tex => textures[i].gpu_tex

\* Number of frames whose end_frame read a clock value in the 1-second
\* window that ends at t, both ends of the window included.
FramesInWindow(t) ==
    Cardinality({k \in DOMAIN frame_ends :
                    frame_ends[k] >= t - TicksPerSecond /\ frame_ends[k] <= t})

\* C11 (as stated): between frames, frames_per_second is the number of
\* frames completed in the most recent full 1-second window, the one that
\* ends at the last fps commit; it is 0 while no window has been committed.
C11_FpsIsFramesOfLastSecond ==
    (constructed /\ pc \in {"idle", "done"}) =>
        \/ statistics.frames_per_second = 0
        \/ statistics.frames_per_second = FramesInWindow(statistics.last_fps_commit_time)

\* C12 (as stated): after the first render of a renderer, when the UI pass
\* succeeded and less than 1 second elapsed during that frame, render has
\* returned Ok and frames_per_second is 0, whatever time passed before it.
FirstFrameDone == pc = "done" /\ ui_result = "Ok" /\ Len(frame_ends) = 1
C12_FirstFrameFpsZero ==
    (FirstFrameDone /\ frame_ends[1] - statistics.frame_start_time < TicksPerSecond) =>
        render_result = "Ok" /\ statistics.frames_per_second = 0

\* C12 (amended): after the first render of a renderer, when the UI pass
\* succeeded and less than 1 second elapsed between the construction of the
\* renderer and the end_frame of that frame, render has returned Ok and
\* frames_per_second is 0; when 1 second or more elapsed it is 1.
C12_FirstFrameFpsSinceNew ==
    FirstFrameDone =>
        /\ render_result = "Ok"
        /\ statistics.frames_per_second =
              IF frame_ends[1] - created_at < TicksPerSecond THEN 0 ELSE 1

C12_Witness ==
    /\ FirstFrameDone
    /\ created_at = 0
    /\ statistics.frame_start_time = 1
    /\ frame_ends[1] = 1
    /\ statistics.frames_per_second = 1

C12_WitnessZero ==
    /\ FirstFrameDone
    /\ frame_ends[1] - created_at < TicksPerSecond
    /\ statistics.frames_per_second = 0

\* C20: after a render that returned Ok, capped_frame_time is not smaller
\* than pure_frame_time; both are measured from the start timestamp this call
\* took, pure_frame_time up to end_frame and capped_frame_time up to finalize.
C20_CappedNotBelowPure ==
    (pc = "done" /\ render_result = "Ok") =>
        /\ statistics.capped_frame_time >= statistics.pure_frame_time
        /\ statistics.pure_frame_time =
              frame_ends[Len(frame_ends)] - statistics.frame_start_time
        /\ statistics.capped_frame_time = now - statistics.frame_start_time

C20_Witness ==
    /\ pc = "done"
    /\ render_result = "Ok"
    /\ swap_result = "Ok"
    /\ statistics.pure_frame_time = 1
    /\ statistics.capped_frame_time = 2

\* C13: set_ambient_color, get_ambient_color, set_frame_size, get_frame_size,
\* upload_resources and get_statistics leave the renderer's statistics as
\* they are, and so does a write of the caller to the Statistics value that
\* get_statistics returned.
C13_StatisticsOnlyByRender ==
    [][(\/ SetAmbientColor
        \/ GetAmbientColor
        \/ SetFrameSize(Sizes)
        \/ GetFrameSize
        \/ UploadResources
        \/ GetStatistics
        \/ CallerModifiesCopy) => statistics' = statistics]_vars

C13_Witness ==
    /\ returned.op = "get_statistics"
    /\ statistics.frame_counter > 0
    /\ returned.value.frame_counter = statistics.frame_counter
    /\ returned.value.frames_per_second # statistics.frames_per_second

\* C14: the ambient colour of the renderer is the colour of the last
\* set_ambient_color, Color::opaque(100, 100, 100) before the first one;
\* get_ambient_color returns it and every lighting pass is given it.
AmbientExpected == IF ambient_set = NoColor THEN DefaultAmbient ELSE ambient_set
C14_AmbientColor ==
    constructed =>
        /\ ambient_color = AmbientExpected
        /\ returned.op = "get_ambient_color" => returned.value = AmbientExpected
        /\ \A k \in DOMAIN log :
              log[k].op = "deferred_light" => log[k].ambient = AmbientExpected

C14_Witness ==
    /\ pc = "done"
    /\ ambient_set \notin {NoColor, DefaultAmbient}
    /\ \E k \in DOMAIN log : log[k].op = "deferred_light" /\ log[k].ambient = ambient_set

C14_WitnessGet ==
    /\ returned.op = "get_ambient_color"
    /\ returned.value = ambient_set
    /\ ambient_set # DefaultAmbient

\* C18 (as stated): whenever a renderer exists its frame_size, and what
\* get_frame_size returns, is the size of the G-Buffer it owns, also after a
\* set_frame_size that returned Err.
C18_FrameSizeIsGBufferSize ==
    constructed =>
        /\ frame_size = gbuffer.size
        /\ returned.op = "get_frame_size" => returned.value = gbuffer.size

\* The first camera node of a graph in its linear order, by position.
FirstCameraOf(graph) ==
    CHOOSE k \in DOMAIN graph :
        graph[k] = "Camera" /\ \A j \in DOMAIN graph : graph[j] = "Camera" => k <= j
\* The fill and lighting passes that the first n scenes of the collection
\* call for: for each scene with a camera, in collection order, one fill and
\* directly after it one lighting pass, both with the scene's first camera.
RECURSIVE ExpectedScenePasses(_)
ExpectedScenePasses(n) ==
    IF n = 0 THEN <<>>
    ELSE ExpectedScenePasses(n - 1) \o
         (IF HasCamera(scenes[n])
          THEN <<[op |-> "gbuffer_fill", scene |-> n, camera |-> FirstCameraOf(scenes[n])],
                 [op |-> "deferred_light", scene |-> n, camera |-> FirstCameraOf(scenes[n])]>>
          ELSE <<>>)
IsScenePass(e) == e.op \in ScenePassOps
\* The fill and lighting passes performed so far in this call of render.
ScenePassesDone ==
    LET passes == SelectSeq(log, IsScenePass)
    IN  [k \in DOMAIN passes |->
            [op |-> passes[k].op,
             scene |-> CHOOSE i \in passes[k].scenes : TRUE,
             camera |-> passes[k].camera]]
ScenesProcessed == IF pc = "scenes" THEN scene_idx - 1 ELSE Len(scenes)

\* C15: at every point of render the fill and lighting passes performed are,
\* for the scenes processed so far in collection order, one fill directly
\* followed by one lighting pass per scene with a camera, both with the first
\* camera node of the scene's graph; scenes without camera and further
\* cameras add no pass.
C15_FirstCameraOnePassPair ==
    (pc # "idle") =>
        /\ \A k \in DOMAIN log : IsScenePass(log[k]) => Cardinality(log[k].scenes) = 1
        /\ ScenePassesDone = ExpectedScenePasses(ScenesProcessed)

C15_Witness ==
    /\ pc = "done" /\ render_result = "Ok"
    /\ Len(scenes) = 2
    /\ scenes[1] = <<"Mesh", "Camera">>
    /\ scenes[2] = <<"Camera", "Camera">>
    /\ Len(ScenePassesDone) = 4
    /\ ScenePassesDone[3].camera = 1

\* What the G-Buffer holds after a fill and lighting pass of scene i.
SceneData(i) == [graph |-> scenes[i], camera |-> FirstCameraOf(scenes[i])]
LastCameraScene == CHOOSE i \in CameraScenes : \A j \in CameraScenes : j <= i
C19_WitnessNoCamera ==
    /\ pc = "done"
    /\ scenes # <<>> /\ CameraScenes = {}
    /\ \E k \in DOMAIN log :
          log[k].op = "final_blit" /\ log[k].gbuffer.frame_texture # Fresh

\* What a step has added to the queues.
NewCommands == SubSeq(command_queue', Len(command_queue) + 1, Len(command_queue'))
NewMessages == SubSeq(ui_queue', Len(ui_queue) + 1, Len(ui_queue'))
\* The command a property change stands for, "none" when it stands for none.
CommandKindFor(a) ==
    CASE a.kind = "Object" /\ a.name = "TEXTURE" -> "SetParticleSystemTextureCommand"
      [] a.kind = "Object" /\ a.name = "ACCELERATION" -> "SetParticleSystemAccelerationCommand"
      [] a.kind = "Object" /\ a.name = "ENABLED" -> "SetParticleSystemEnabledCommand"
      [] a.kind = "Object" /\ a.name = "SOFT_BOUNDARY_SHARPNESS_FACTOR" ->
            "SetSoftBoundarySharpnessFactorCommand"
      [] a.kind = "Collection" /\ a.name = "EMITTERS" /\ a.change.op = "Remove" ->
            "DeleteEmitterCommand"
      [] OTHER -> "none"
OpensSelector(a) == a.kind = "Collection" /\ a.name = "EMITTERS" /\ a.change.op = "Add"

C16_WitnessRemove ==
    /\ handled # NoInput /\ handled.call = "handle"
    /\ handled.args.change.op = "Remove" /\ handled.args.change.index = MaxIndex
    /\ Len(command_queue) = 1
    /\ command_queue[1].kind = "DeleteEmitterCommand"
    /\ command_queue[1].index = MaxIndex

C16_WitnessAdd ==
    /\ handled # NoInput /\ handled.call = "handle"
    /\ handled.args.change.op = "Add" /\ handled.args.name = "EMITTERS"
    /\ command_queue = <<>>
    /\ Len(ui_queue) = 1 /\ ui_queue[1].kind = "WindowMessage::open_modal"

EmitterButtons == {"sphere", "cuboid", "cylinder"}
EmitterOfButton(w) ==
    CASE w = "sphere" -> "Sphere" [] w = "cuboid" -> "Cuboid" [] w = "cylinder" -> "Cylinder"
IsEmitterClick(h) ==
    /\ h.call = "handle_ui_message"
    /\ h.message.data = "ButtonMessage::Click"
    /\ h.message.destination \in EmitterButtons

\* C17: a step adds an AddParticleSystemEmitterCommand only when it is
\* handle_ui_message called with a Click on the sphere, cuboid or cylinder
\* button; such a call issues exactly one command, with the emitter of the
\* clicked button and the node handle of the call, and right after it one
\* close message to the selector window; every other call of
\* handle_ui_message issues neither a command nor a message.
C17_AddEmitterOnlyOnButtonClick ==
    [][/\ (\E k \in DOMAIN NewCommands :
                NewCommands[k].kind = "AddParticleSystemEmitterCommand")
            => IsEmitterClick(handled')
       /\ HandleUiMessage(UiMessages) =>
            IF IsEmitterClick(handled')
            THEN /\ NewCommands =
                        <<[kind |-> "AddParticleSystemEmitterCommand",
                           node_handle |-> handled'.node_handle, value |-> NoValue,
                           emitter |-> EmitterOfButton(handled'.message.destination),
                           index |-> 0, at |-> Sent]>>
                 /\ NewMessages =
                        <<[kind |-> "WindowMessage::close", destination |-> "selector_window",
                           direction |-> "ToWidget", modal |-> FALSE, at |-> Sent + 1]>>
            ELSE NewCommands = <<>> /\ NewMessages = <<>>]_vars

C17_Witness ==
    /\ handled # NoInput /\ IsEmitterClick(handled)
    /\ handled.message.destination = "sphere"
    /\ Len(command_queue) = 1 /\ Len(ui_queue) = 2
    /\ ui_queue[1].kind = "WindowMessage::open_modal"
    /\ command_queue[1].emitter = "Sphere"
    /\ command_queue[1].at + 1 = ui_queue[2].at

C17_WitnessOtherClick ==
    /\ handled # NoInput /\ handled.call = "handle_ui_message"
    /\ handled.message.data = "ButtonMessage::Click"
    /\ handled.message.destination = "other"
    /\ command_queue = <<>> /\ Len(ui_queue) = 1
====
